---- MODULE Spec2Model ----
(***************************************************************************)
(* Model of the MCP process lifecycle manager (class MCPManager) and of    *)
(* the HTTP handlers that drive it.  One action is one turn of the Node    *)
(* event loop: the synchronous part of a handler together with the promise *)
(* continuations (microtasks) that it releases.                            *)
(***************************************************************************)
EXTENDS Integers, Sequences, FiniteSets, TLC

VARIABLES
    procs,                  \* every ChildProcess returned by spawn(); the pid is the index
    registry,               \* this.registry            : uniqueKey -> entry
    initializingProcesses,  \* this.initializingProcesses : uniqueKey -> pending startup
    jsonRpcIdCounter,       \* this.jsonRpcIdCounter
    now,                    \* Date.now()
    calls,                  \* the /api/start requests whose ensureProcess call is pending
    replies,                \* what ensureProcess returned to /api/start in the latest turn
    emitted,                \* the events the manager emitted in the latest turn
    apiCall,                \* the /api/run or /api/details request whose timer is pending
    answers,                \* the HTTP answers of /api/run, /api/details and /api/kill
                            \* sent in the latest turn
    running,                \* the manager's own process has not exited
    entryConfig,            \* entry.config of the entry a reporting function reads
    listed,                 \* what the reporting function returned for that entry
    output,                 \* the stdout lines a call has collected when its timer fires
    parsedOutput,           \* the parsedResponse its timeout callback computed
    handshakeOutput,        \* output and outputSize of one handshake's dataListener
    spawnOptions            \* process.env, config.env and the env given to spawn()

vars == <<procs, registry, initializingProcesses, jsonRpcIdCounter, now, calls,
          replies, emitted, apiCall, answers, running, entryConfig, listed,
          output, parsedOutput, handshakeOutput, spawnOptions>>

----------------------------------------------------------------------------
(* Bounds of the model *)

MaxProcs   == 2     \* spawns in one behaviour
MaxTime    == 2     \* last value of the clock
MaxStdin   == 3     \* lines on one child's stdin

\* PING_INTERVAL_MS, in units of the clock
PING_INTERVAL == 1

(* Inputs *)

Clients == {"a"}
Servers == {"x"}
TTLs    == {0, 1}

\* a config is the ordered list of its members, as a JS object is
CfgA == << <<"command", "npx">>, <<"args", "-y one">> >>
CfgB == << <<"command", "npx">>, <<"args", "-y two">> >>
Configs == {CfgA, CfgB}

\* the /api/start requests that can be pending together
Callers == {1, 2}

----------------------------------------------------------------------------
(* Pure helpers *)

\* `${clientId}:${MCPServerName}`
generateKey(clientId, MCPServerName) == clientId \o ":" \o MCPServerName

Keys == {generateKey(c, s) : c \in Clients, s \in Servers}

\* JSON.stringify(config): the members in their order, each "name":value
RECURSIVE JSONstringify(_)
JSONstringify(config) ==
    IF config = << >> THEN << >>
    ELSE <<Head(config)[1], ":", Head(config)[2]>> \o JSONstringify(Tail(config))

MapSet(m, k, v) == [x \in (DOMAIN m) \cup {k} |-> IF x = k THEN v ELSE m[x]]
MapDelete(m, k) == [x \in (DOMAIN m) \ {k} |-> m[x]]
EmptyMap        == [x \in {} |-> 0]

Pids == 1..Len(procs)

Count(seq, x) == Cardinality({i \in 1..Len(seq) : seq[i] = x})

----------------------------------------------------------------------------
(* The child processes *)

\* what spawn() returns when a pid was assigned, with the timer and the handshake
\* state that _terminateProcess and _initializeMCPServer attach to it
NewProc(key, initId, superseded) ==
    [ key       |-> key,
      alive     |-> TRUE,        \* the OS process has not exited
      killed    |-> FALSE,       \* proc.killed: a signal was delivered by proc.kill()
      killTimer |-> FALSE,       \* forceKillTimer is pending
      stdin     |-> << >>,       \* the lines written to proc.stdin, oldest first (the
                                 \* pipe is gone once the process has exited)
      hs        |-> "pending",   \* the handshake promise: pending, answered, true, false
      initId    |-> initId,      \* the id dataListener waits for, 0 once it is detached
      sigkill   |-> FALSE,       \* proc.kill("SIGKILL") was delivered
      superseded |-> superseded, \* the process of another config that the ensureProcess
                                 \* call which spawned this one terminated, else 0
      listeners |-> 0 ]          \* the "data" listeners on proc.stdout that the
                                 \* handshake, /api/run and /api/details have
                                 \* attached (each comes with one on proc.stderr)

\* the ChildProcess object once its process has exited: its pipes are gone, and
\* of its state only the pending handshake promise is still read by the manager
Exited(proc) ==
    [ key |-> proc.key, alive |-> FALSE, killed |-> FALSE, killTimer |-> FALSE,
      stdin |-> << >>, hs |-> proc.hs, initId |-> 0, sigkill |-> FALSE,
      superseded |-> 0, listeners |-> proc.listeners ]

\* the most listener pairs that failed /api/details calls leave on one process
MaxListeners == 1

\* proc.stdout.on("data", ...) and proc.stderr.on("data", ...)
Attach(ps, p) == [ps EXCEPT ![p].listeners = @ + 1]

\* proc.stdout.off("data", ...) and proc.stderr.off("data", ...)
Detach(ps, p) == [ps EXCEPT ![p].listeners = @ - 1]

\* proc.stdin.write(line)
StdinWrite(ps, p, line) == [ps EXCEPT ![p].stdin = Append(@, line)]

\* proc.kill(signal): the signal is delivered, and proc.killed set, only while the
\* process has not exited
ProcKill(ps, p) ==
    IF ps[p].alive THEN [ps EXCEPT ![p].killed = TRUE] ELSE ps

\* _terminateProcess(proc, uniqueKey)
terminateProcess(ps, p) ==
    IF ps[p].killed THEN ps
    ELSE [ProcKill(ps, p) EXCEPT ![p].killTimer = TRUE]

----------------------------------------------------------------------------
(* The registry *)

\* mutant of NewEntry: registered as initialized
NewEntryInitialized(p, configHash, ttlMs) ==
    [ pid |-> p, configHash |-> configHash, lastHit |-> now, ttlMs |-> ttlMs,
      isInitialized |-> TRUE, lastPing |-> 0 ]

\* the entry _doEnsureProcess registers
NewEntry(p, configHash, ttlMs) ==
    [ pid           |-> p,
      configHash    |-> configHash,
      lastHit       |-> now,
      ttlMs         |-> ttlMs,
      isInitialized |-> FALSE,
      lastPing      |-> 0 ]

\* mutant of InFlight: ensureProcess without the in-flight check
InFlightUnchecked(key) == 0

\* mutant of InFlight: one in-flight marker for all keys
InFlightAnyKey(key) ==
    IF DOMAIN initializingProcesses # {}
    THEN initializingProcesses[CHOOSE k \in DOMAIN initializingProcesses : TRUE]
    ELSE 0

\* ensureProcess: the in-flight startup of the key, 0 when there is none
InFlight(key) ==
    IF key \in DOMAIN initializingProcesses THEN initializingProcesses[key] ELSE 0

\* mutant of CanReuse: the configs compared by identity (existing.config === config),
\* which no new request satisfies
CanReuseByIdentity(key, configHash) == FALSE

\* ensureProcess: the entry can be reused
CanReuse(key, configHash) ==
    /\ key \in DOMAIN registry
    /\ registry[key].configHash = configHash
    /\ ~procs[registry[key].pid].killed
    /\ registry[key].isInitialized

\* mutant of Reused: a reusing call also installs the ttl it was given
ReusedWithTtl(entry, ttlMs) == [entry EXCEPT !.lastHit = now, !.ttlMs = ttlMs]

\* ensureProcess: what a reusing call makes of the entry (existing.lastHit =
\* Date.now()); the ttlMs it was given is not used
Reused(entry, ttlMs) == [entry EXCEPT !.lastHit = now]

\* ensureProcess: the previous process has to be killed
MustKillPrevious(key) ==
    /\ key \in DOMAIN registry
    /\ ~procs[registry[key].pid].killed

\* isHealthy(clientId, MCPServerName).reason, "healthy" when healthy
isHealthy(key) ==
    IF key \notin DOMAIN registry THEN "Process not found"
    ELSE IF procs[registry[key].pid].killed THEN "Process killed"
    ELSE IF ~registry[key].isInitialized THEN "Not initialized"
    ELSE IF procs[registry[key].pid].alive THEN "healthy"
    ELSE "Process not responding (zombie)"

\* mutant of isInitialized: the isInitialized flag of the entry is not read
isInitializedUnchecked(key) ==
    /\ key \in DOMAIN registry
    /\ ~procs[registry[key].pid].killed

\* isInitialized(clientId, MCPServerName)
isInitialized(key) ==
    /\ key \in DOMAIN registry
    /\ ~procs[registry[key].pid].killed
    /\ registry[key].isInitialized

\* the uniqueKeys listActiveProcesses returns
listActiveProcesses ==
    {k \in DOMAIN registry : ~procs[registry[k].pid].killed}

----------------------------------------------------------------------------
(* The /api/start requests *)

\* path: how ensureProcess went (spawn, join, reuse, fail); startup: the pending
\* startup it awaits, named by the process it spawned; fresh: the registry had no
\* entry for the key when the startup began
IdleCall == [pc |-> "idle", clientId |-> "", MCPServerName |-> "", key |-> "",
             path |-> "none", startup |-> 0, fresh |-> FALSE]

\* what ensureProcess returns (or throws) to /api/start
Reply(c, call, path, pid, wasAlreadyRunning, error) ==
    [caller |-> c, clientId |-> call.clientId, MCPServerName |-> call.MCPServerName,
     key |-> call.key, path |-> path, fresh |-> call.fresh, pid |-> pid,
     wasAlreadyRunning |-> wasAlreadyRunning, error |-> error]

\* mutant of Awaiting: only the call that spawned the process is settled
AwaitingSpawner(p) ==
    {c \in Callers : calls[c].pc = "await" /\ calls[c].startup = p
                                         /\ calls[c].path = "spawn"}

\* the ensureProcess calls that await the startup of process p
Awaiting(p) == {c \in Callers : calls[c].pc = "await" /\ calls[c].startup = p}

\* the promise of startup p settles with its process: every ensureProcess call
\* that awaits it returns it, the waiting ones tagged wasAlreadyRunning
Settle(p) ==
    /\ calls' = [c \in Callers |-> IF c \in Awaiting(p) THEN IdleCall ELSE calls[c]]
    /\ replies' = {Reply(c, calls[c], calls[c].path, p, calls[c].path = "join", FALSE) :
                      c \in Awaiting(p)}

\* no /api/run or /api/details request is waiting for its timer
NoApiCall == [kind |-> "none", pid |-> 0, written |-> FALSE, sent |-> FALSE]

\* res.status(status).json(...): why names the branch of the handler that answered
Answer(kind, key, status, why) ==
    [kind |-> kind, key |-> key, status |-> status, ok |-> (status = 200), why |-> why]

\* a turn in which no reporting function is called and no output is scanned,
\* and outside the handshake buffer and the environment of a spawn
NoListing == UNCHANGED <<entryConfig, listed, output, parsedOutput,
                         handshakeOutput, spawnOptions>>

\* let parsedOutput = null, and the value before a timeout callback has run
NullLine == [brace |-> FALSE, valid |-> FALSE, id |-> 0]
NotParsed == [kind |-> "none", value |-> NullLine]

\* a turn in which no request of /api/run, /api/details or /api/kill is handled
NoApi == /\ answers' = {}
         /\ UNCHANGED <<apiCall, running>>
         /\ NoListing

\* a config without arguments and environment, and the report before any call
NoConfig == [args |-> << >>, env |-> << >>]
NotListed == [by |-> "none", config |-> NoConfig]

\* let output = "", outputSize = 0; chunks counts the "data" events
NoOutput == [output |-> << >>, outputSize |-> 0, chunks |-> 0]

\* an object without members, and the spawn options before any spawn
EmptyEnv == [n \in {} |-> ""]
NoSpawn == [host |-> EmptyEnv, extra |-> EmptyEnv, win32 |-> FALSE, env |-> EmptyEnv,
            spawned |-> FALSE]

Init ==
    /\ procs = << >>
    /\ registry = EmptyMap
    /\ initializingProcesses = EmptyMap
    /\ jsonRpcIdCounter = 1
    /\ now = 1
    /\ calls = [c \in Callers |-> IdleCall]
    /\ replies = {}
    /\ emitted = {}
    /\ apiCall = NoApiCall
    /\ answers = {}
    /\ running = TRUE
    /\ entryConfig = NoConfig
    /\ listed = NotListed
    /\ output = << >>
    /\ parsedOutput = NotParsed
    /\ handshakeOutput = NoOutput
    /\ spawnOptions = NoSpawn

\* POST /api/start: ensureProcess up to its first await, _doEnsureProcess and
\* _initializeMCPServer up to theirs
EnsureProcess(c, clientId, MCPServerName, config, ttlMs) ==
    LET uniqueKey  == generateKey(clientId, MCPServerName)
        configHash == JSONstringify(config)
        call       == [IdleCall EXCEPT !.clientId = clientId,
                                       !.MCPServerName = MCPServerName,
                                       !.key = uniqueKey,
                                       !.fresh = uniqueKey \notin DOMAIN registry]
    IN
    /\ running
    /\ calls[c].pc = "idle"
    /\ \A d \in Callers : d < c => calls[d].pc # "idle"    \* the first free slot
    /\ emitted' = {}
    /\ answers' = {}
    /\ UNCHANGED apiCall
    /\ NoListing
    /\ IF InFlight(uniqueKey) # 0
       THEN \* wait for the in-flight initialization
            /\ calls' = [calls EXCEPT ![c] =
                   [call EXCEPT !.pc = "await", !.path = "join",
                                !.startup = InFlight(uniqueKey)]]
            /\ replies' = {}
            /\ UNCHANGED <<procs, registry, initializingProcesses, jsonRpcIdCounter,
                           running>>
       ELSE IF CanReuse(uniqueKey, configHash)
       THEN \* reuse the existing initialized process
            /\ registry' = [registry EXCEPT ![uniqueKey] = Reused(@, ttlMs)]
            /\ replies' = {Reply(c, call, "reuse", registry[uniqueKey].pid, TRUE, FALSE)}
            /\ UNCHANGED <<procs, initializingProcesses, jsonRpcIdCounter, calls,
                           running>>
       ELSE LET kill == MustKillPrevious(uniqueKey)
                ps1  == IF kill THEN terminateProcess(procs, registry[uniqueKey].pid)
                        ELSE procs
                reg1 == IF kill THEN MapDelete(registry, uniqueKey) ELSE registry
                p    == Len(procs) + 1
                old  == IF kill /\ registry[uniqueKey].configHash # configHash
                        THEN registry[uniqueKey].pid ELSE 0
            IN
            \/ \* spawn() assigned a pid
               /\ Len(procs) < MaxProcs
               /\ procs' = StdinWrite(
                      Attach(Append(ps1, NewProc(uniqueKey, jsonRpcIdCounter, old)), p),
                      p, "initialize")
               /\ jsonRpcIdCounter' = jsonRpcIdCounter + 1
               /\ registry' = MapSet(reg1, uniqueKey, NewEntry(p, configHash, ttlMs))
               /\ initializingProcesses' = MapSet(initializingProcesses, uniqueKey, p)
               /\ calls' = [calls EXCEPT ![c] =
                      [call EXCEPT !.pc = "await", !.path = "spawn", !.startup = p]]
               /\ replies' = {}
               /\ UNCHANGED running
            \/ \* spawn() itself throws: the startup promise rejects, the finally
               \* block drops the marker and ensureProcess rejects
               /\ procs' = ps1
               /\ registry' = reg1
               /\ replies' = {Reply(c, call, "fail", 0, FALSE, TRUE)}
               /\ UNCHANGED <<initializingProcesses, jsonRpcIdCounter, calls, running>>
            \/ \* spawn() assigned no pid: _doEnsureProcess throws before it has
               \* attached its "error" listener, and the "error" event that the
               \* child emits on the next tick, having no listener, is an uncaught
               \* exception: the handler of index.js calls process.exit(1) before
               \* the rejection reaches /api/start
               /\ procs' = ps1
               /\ registry' = reg1
               /\ initializingProcesses' = MapSet(initializingProcesses, uniqueKey, 0)
               /\ replies' = {}
               /\ running' = FALSE
               /\ UNCHANGED <<jsonRpcIdCounter, calls>>
    /\ UNCHANGED now

----------------------------------------------------------------------------
(* The handshake *)

\* a line a child can write to its stdout: JSON or not, its id, and whether a
\* (truthy) result member comes with it
StdoutLines(p) ==
    [json : BOOLEAN, id : {0, procs[p].initId}, result : BOOLEAN]

\* mutant of IsInitResponse: any JSON line with a result is taken for the response
IsInitResponseAnyId(line, initId) ==
    line.json /\ line.result

\* dataListener: the line is the response to the initialize request initId
IsInitResponse(line, initId) ==
    line.json /\ line.id = initId /\ line.result

\* mutant of FinishStartup: a process whose handshake failed is killed and its
\* entry discarded
FinishStartupDiscard(p, initialized) ==
    LET key    == procs[p].key
        marked == initialized /\ key \in DOMAIN registry
    IN
    /\ registry' = IF marked THEN [registry EXCEPT ![key].isInitialized = TRUE]
                   ELSE MapDelete(registry, key)
    /\ emitted' = {}
    /\ initializingProcesses' = MapDelete(initializingProcesses, key)
    /\ Settle(p)
    /\ NoApi

\* after "await initializePromise" in _doEnsureProcess and after the awaits of
\* ensureProcess: mark the entry of the key, drop the in-flight marker, return
FinishStartup(p, initialized) ==
    LET key    == procs[p].key
        marked == initialized /\ key \in DOMAIN registry
    IN
    /\ registry' = IF marked THEN [registry EXCEPT ![key].isInitialized = TRUE]
                   ELSE registry
    /\ emitted' = IF marked THEN {<<"configChanged", key>>}
                  ELSE IF ~initialized
                       THEN {<<"initTimeout", key>>, <<"initializationFailed", key>>}
                       ELSE {}
    /\ initializingProcesses' = MapDelete(initializingProcesses, key)
    /\ Settle(p)
    /\ NoApi

\* the child writes a line to its stdout while dataListener is attached
ChildStdout(p, line) ==
    /\ running
    /\ procs[p].alive
    /\ procs[p].hs = "pending"
    /\ IF IsInitResponse(line, procs[p].initId)
       THEN /\ procs' = [Detach(StdinWrite(procs, p, "notifications/initialized"), p)
                            EXCEPT ![p].hs = "answered", ![p].initId = 0]
            /\ emitted' = {<<"initialized", procs[p].key>>}
       ELSE /\ UNCHANGED procs
            /\ emitted' = {}
    /\ replies' = {}
    /\ NoApi
    /\ UNCHANGED <<registry, initializingProcesses, jsonRpcIdCounter, now, calls>>

\* setTimeout(() => resolve(true), 100) fires
InitResolveTrue(p) ==
    /\ running
    /\ procs[p].hs = "answered"
    /\ procs' = [procs EXCEPT ![p].hs = "true"]
    /\ FinishStartup(p, TRUE)
    /\ UNCHANGED <<jsonRpcIdCounter, now>>

\* the INIT_TIMEOUT_MS timer fires before a response was read
InitTimeout(p) ==
    /\ running
    /\ procs[p].hs = "pending"
    /\ procs' = [Detach(procs, p) EXCEPT ![p].hs = "false", ![p].initId = 0]
    /\ FinishStartup(p, FALSE)
    /\ UNCHANGED <<jsonRpcIdCounter, now>>

----------------------------------------------------------------------------
(* Process events *)

\* proc.on("exit"): the process is gone; the handler deletes the key's entry and
\* the listener of _terminateProcess clears the force-kill timer
ProcExit(p) ==
    /\ running
    /\ procs[p].alive
    /\ registry' = MapDelete(registry, procs[p].key)
    /\ emitted' = {<<"processExit", procs[p].key>>}
    /\ replies' = {}
    /\ IF apiCall.kind = "run" /\ apiCall.pid = p /\ ~apiCall.sent
       THEN \* processExitHandler of /api/run detaches the listeners of the
            \* call and answers; the timer of the call stays pending
            /\ procs' = [Detach(procs, p) EXCEPT ![p] = Exited(@)]
            /\ answers' = {Answer("run", procs[p].key, 500, "exit")}
            /\ apiCall' = [apiCall EXCEPT !.sent = TRUE]
       ELSE /\ procs' = [procs EXCEPT ![p] = Exited(@)]
            /\ answers' = {}
            /\ UNCHANGED apiCall
    /\ UNCHANGED <<initializingProcesses, jsonRpcIdCounter, now, calls, running>>
    /\ NoListing

\* proc.on("error") on a running process: the handler deletes the key's entry
ProcError(p) ==
    /\ running
    /\ procs[p].alive
    /\ registry' = MapDelete(registry, procs[p].key)
    /\ emitted' = {<<"processError", procs[p].key>>}
    /\ replies' = {}
    /\ NoApi
    /\ UNCHANGED <<procs, initializingProcesses, jsonRpcIdCounter, now, calls>>

\* forceKillTimer fires SIGTERM_TIMEOUT_MS after _terminateProcess
ForceKillTimer(p) ==
    /\ running
    /\ procs[p].killTimer
    /\ procs' = [(IF ~procs[p].killed
                  THEN [ProcKill(procs, p) EXCEPT ![p].sigkill = procs[p].alive]
                  ELSE procs)
                    EXCEPT ![p].killTimer = FALSE]
    /\ emitted' = {}
    /\ replies' = {}
    /\ NoApi
    /\ UNCHANGED <<registry, initializingProcesses, jsonRpcIdCounter, now, calls>>

----------------------------------------------------------------------------
(* The other operations of the manager and of the API *)

\* mutant of KillReturns: only an initialized entry is killed
KillReturnsIfInitialized(key) ==
    /\ key \in DOMAIN registry
    /\ ~procs[registry[key].pid].killed
    /\ registry[key].isInitialized

\* what killProcess returns
KillReturns(key) ==
    /\ key \in DOMAIN registry
    /\ ~procs[registry[key].pid].killed

\* DELETE /api/kill: killProcess
killProcess(key) ==
    /\ running
    /\ IF KillReturns(key)
       THEN /\ procs' = terminateProcess(procs, registry[key].pid)
            /\ registry' = MapDelete(registry, key)
            /\ answers' = {Answer("kill", key, 200, "terminated")}
       ELSE /\ UNCHANGED <<procs, registry>>
            /\ answers' = {Answer("kill", key, 404, "Process not found")}
    /\ emitted' = {}
    /\ replies' = {}
    /\ UNCHANGED <<apiCall, running>>
    /\ NoListing
    /\ UNCHANGED <<initializingProcesses, jsonRpcIdCounter, now, calls>>

\* mutant of Expired: >= for >
ExpiredInclusive(key) ==
    /\ key \in DOMAIN registry
    /\ now - registry[key].lastHit >= registry[key].ttlMs

\* mutant of Expired: the sweep passes over an entry that is not initialized
ExpiredIfInitialized(key) ==
    /\ key \in DOMAIN registry
    /\ registry[key].isInitialized
    /\ now - registry[key].lastHit > registry[key].ttlMs

\* sweepExpiredProcesses: the entry is expired
Expired(key) ==
    /\ key \in DOMAIN registry
    /\ now - registry[key].lastHit > registry[key].ttlMs

RECURSIVE TerminateAll(_, _)
TerminateAll(ps, pids) ==
    IF pids = {} THEN ps
    ELSE LET p == CHOOSE x \in pids : TRUE
         IN  TerminateAll(terminateProcess(ps, p), pids \ {p})

sweepExpiredProcesses ==
    LET expiredKeys == {k \in DOMAIN registry : Expired(k)} IN
    /\ running
    /\ NoApi
    /\ procs' = TerminateAll(procs, {registry[k].pid : k \in expiredKeys})
    /\ registry' = [k \in (DOMAIN registry) \ expiredKeys |-> registry[k]]
    /\ emitted' = {<<"timeout", k>> : k \in expiredKeys}
    /\ replies' = {}
    /\ UNCHANGED <<initializingProcesses, jsonRpcIdCounter, now, calls>>

\* getProcess(clientId, MCPServerName): the pid, 0 for null
getProcess(key) ==
    IF key \notin DOMAIN registry \/ procs[registry[key].pid].killed THEN 0
    ELSE registry[key].pid

\* the request line /api/run and /api/details write
RequestLine(kind) == IF kind = "run" THEN "tools/call" ELSE "tools/list"

\* what proc.stdin.write(line) can do: queue the line; throw; or, the stream being
\* closed, return normally and report the error to the write callback only
WriteOutcomes == {"queued", "throws", "fails"}

\* POST /api/run and GET /api/details, up to the setTimeout that answers them
ApiCall(kind, key, outcome) ==
    LET p == getProcess(key) IN
    /\ running
    /\ registry' = IF p # 0 THEN [registry EXCEPT ![key].lastHit = now] ELSE registry
    /\ IF p = 0
       THEN /\ answers' = {Answer(kind, key, 404, "not found")}
            /\ UNCHANGED <<procs, apiCall>>
       ELSE IF procs[p].killed
       THEN /\ answers' = {Answer(kind, key, 410, "was terminated")}
            /\ UNCHANGED <<procs, apiCall>>
       ELSE IF ~isInitialized(key)
       THEN /\ answers' = {Answer(kind, key, 400, "not yet initialized")}
            /\ UNCHANGED <<procs, apiCall>>
       ELSE /\ apiCall = NoApiCall
            /\ IF outcome = "throws"
               THEN \* the catch around the write (/api/run), which detaches the
                    \* listeners attached just before, or the outer catch
                    \* (/api/details), which does not
                    /\ answers' = {Answer(kind, key, 500, "write error")}
                    /\ UNCHANGED apiCall
                    /\ IF kind = "run" THEN procs' = Detach(Attach(procs, p), p)
                       ELSE /\ procs[p].listeners < MaxListeners
                            /\ procs' = Attach(procs, p)
               ELSE /\ answers' = {}
                    /\ apiCall' = [kind |-> kind, pid |-> p,
                                   written |-> (outcome = "queued"), sent |-> FALSE]
                    /\ IF outcome = "queued"
                       THEN /\ Len(procs[p].stdin) < MaxStdin
                            /\ procs' = StdinWrite(Attach(procs, p), p, RequestLine(kind))
                       ELSE procs' = Attach(procs, p)
    /\ emitted' = {}
    /\ replies' = {}
    /\ UNCHANGED <<initializingProcesses, jsonRpcIdCounter, now, calls, running>>
    /\ NoListing

\* the setTimeout of /api/run (API_RUN_TIMEOUT_MS) or of /api/details
\* (API_RESPONSE_TIMEOUT_MS) fires
ApiTimeout ==
    /\ running
    /\ apiCall # NoApiCall
    /\ apiCall' = NoApiCall
    /\ IF apiCall.sent
       THEN \* processExitHandler has answered already: res.json throws "headers
            \* already sent" in the timer callback, an uncaught exception
            /\ answers' = {}
            /\ running' = FALSE
       ELSE /\ answers' = {Answer(apiCall.kind, procs[apiCall.pid].key, 200, "timeout")}
            /\ UNCHANGED running
    /\ procs' = IF apiCall.sent THEN procs    \* detached by processExitHandler
                ELSE Detach(procs, apiCall.pid)
    /\ emitted' = {}
    /\ replies' = {}
    /\ UNCHANGED <<registry, initializingProcesses, jsonRpcIdCounter, now, calls>>
    /\ NoListing

\* the "error" event of proc.stdin after a write that failed: the stream has no
\* "error" listener, so the event is an uncaught exception
StdinError ==
    /\ running
    /\ apiCall # NoApiCall
    /\ ~apiCall.written
    /\ running' = FALSE
    /\ answers' = {}
    /\ emitted' = {}
    /\ replies' = {}
    /\ UNCHANGED <<procs, registry, initializingProcesses, jsonRpcIdCounter, now, calls,
                   apiCall>>
    /\ NoListing

\* mutant of PingDue: an entry is pinged again only after a whole ping interval
PingDueWholeInterval(key) ==
    /\ key \in DOMAIN registry
    /\ ~procs[registry[key].pid].killed
    /\ registry[key].isInitialized
    /\ \/ registry[key].lastPing = 0
       \/ now - registry[key].lastPing > PING_INTERVAL

\* pingActiveConnections: the entry of the snapshot is pinged
PingDue(key) ==
    /\ key \in DOMAIN registry
    /\ ~procs[registry[key].pid].killed
    /\ registry[key].isInitialized
    /\ \/ registry[key].lastPing = 0
       \/ 10 * (now - registry[key].lastPing) > 8 * PING_INTERVAL

\* mutant of Pinged: a ping counts as a use of the entry
PingedAndHit(entry) == [entry EXCEPT !.lastPing = now, !.lastHit = now]

\* currentEntry.lastPing = now (entry.lastPing = Date.now() in pingConnection)
Pinged(entry) == [entry EXCEPT !.lastPing = now]

RECURSIVE WriteAll(_, _, _)
WriteAll(ps, pids, line) ==
    IF pids = {} THEN ps
    ELSE LET p == CHOOSE x \in pids : TRUE
         IN  WriteAll(StdinWrite(ps, p, line), pids \ {p}, line)

\* written: the due keys whose stdin.write returned true
pingActiveConnections(written) ==
    LET due == {k \in DOMAIN registry : PingDue(k)} IN
    /\ running
    /\ NoApi
    /\ written \subseteq due
    /\ \A k \in due : Len(procs[registry[k].pid].stdin) < MaxStdin
    /\ procs' = WriteAll(procs, {registry[k].pid : k \in due}, "ping")
    /\ jsonRpcIdCounter' = jsonRpcIdCounter + Cardinality(due)
    /\ registry' = [k \in DOMAIN registry |->
                       IF k \in written THEN Pinged(registry[k])
                       ELSE registry[k]]
    /\ emitted' = {}
    /\ replies' = {}
    /\ UNCHANGED <<initializingProcesses, now, calls>>

\* time passes
Tick ==
    /\ running
    /\ NoApi
    /\ now < MaxTime
    /\ now' = now + 1
    /\ emitted' = {}
    /\ replies' = {}
    /\ UNCHANGED <<procs, registry, initializingProcesses, jsonRpcIdCounter, calls>>

Next ==
    \/ \E c \in Callers, cl \in Clients, s \in Servers, cfg \in Configs, ttl \in TTLs :
          EnsureProcess(c, cl, s, cfg, ttl)
    \/ \E p \in Pids : \E line \in StdoutLines(p) : ChildStdout(p, line)
    \/ \E p \in Pids : InitResolveTrue(p)
    \/ \E p \in Pids : InitTimeout(p)
    \/ \E p \in Pids : ProcExit(p)
    \/ \E p \in Pids : ProcError(p)
    \/ \E p \in Pids : ForceKillTimer(p)
    \/ \E k \in Keys : killProcess(k)
    \/ sweepExpiredProcesses
    \/ \E kind \in {"run", "details"}, k \in Keys, w \in WriteOutcomes :
          ApiCall(kind, k, w)
    \/ ApiTimeout
    \/ StdinError
    \/ \E w \in SUBSET Keys : pingActiveConnections(w)
    \/ Tick

Spec == Init /\ [][Next]_vars

\* the timers of the handshake fire: the INIT_TIMEOUT_MS timer while no response
\* has been read, the 100 ms timer once it has
SpecTimersFire ==
    /\ Spec
    /\ \A p \in 1..MaxProcs : WF_vars(p \in Pids /\ InitTimeout(p))
    /\ \A p \in 1..MaxProcs : WF_vars(p \in Pids /\ InitResolveTrue(p))

----------------------------------------------------------------------------
(* The manager with its shutdown method, which the application itself never
   calls *)

\* shutdown()
shutdown ==
    /\ running
    /\ procs' = TerminateAll(procs, {registry[k].pid : k \in DOMAIN registry})
    /\ registry' = EmptyMap
    /\ initializingProcesses' = EmptyMap
    /\ emitted' = {}
    /\ replies' = {}
    /\ NoApi
    /\ UNCHANGED <<jsonRpcIdCounter, now, calls>>

NextShutdown ==
    \/ Next
    \/ shutdown

SpecShutdown == Init /\ [][NextShutdown]_vars

----------------------------------------------------------------------------
(* Several clients and servers.  /api/start accepts any non-empty clientId and
   MCPServerName, a colon included. *)

Pairs == {<<"a", "b:c">>, <<"a:b", "c">>, <<"a", "c">>}

PairKeys == {generateKey(pr[1], pr[2]) : pr \in Pairs}

\* the operations that name a key, and the events of the processes; the clock
\* stands still
NextPairs ==
    \/ \E c \in Callers, pr \in Pairs : EnsureProcess(c, pr[1], pr[2], CfgA, 1)
    \/ \E p \in Pids : \E line \in StdoutLines(p) : ChildStdout(p, line)
    \/ \E p \in Pids : InitResolveTrue(p)
    \/ \E p \in Pids : InitTimeout(p)
    \/ \E p \in Pids : ProcExit(p)
    \/ \E p \in Pids : ProcError(p)
    \/ \E k \in PairKeys : killProcess(k)
    \/ \E k \in PairKeys : ApiCall("run", k, "queued")
    \/ ApiTimeout

SpecPairs == Init /\ [][NextPairs]_vars

----------------------------------------------------------------------------
(* Redaction of the configs that the reporting functions return.  A string is
   the sequence of its characters. *)

\* String.prototype.toLowerCase, character by character
LowerChar(ch) ==
    CASE ch = "A" -> "a" [] ch = "B" -> "b" [] ch = "C" -> "c" [] ch = "D" -> "d"
      [] ch = "E" -> "e" [] ch = "F" -> "f" [] ch = "G" -> "g" [] ch = "H" -> "h"
      [] ch = "I" -> "i" [] ch = "J" -> "j" [] ch = "K" -> "k" [] ch = "L" -> "l"
      [] ch = "M" -> "m" [] ch = "N" -> "n" [] ch = "O" -> "o" [] ch = "P" -> "p"
      [] ch = "Q" -> "q" [] ch = "R" -> "r" [] ch = "S" -> "s" [] ch = "T" -> "t"
      [] ch = "U" -> "u" [] ch = "V" -> "v" [] ch = "W" -> "w" [] ch = "X" -> "x"
      [] ch = "Y" -> "y" [] ch = "Z" -> "z" [] OTHER -> ch

\* mutant of toLowerCase: the name is compared as it is written
toLowerCaseOmitted(str) == str

toLowerCase(str) == [i \in 1..Len(str) |-> LowerChar(str[i])]

\* String.prototype.includes
includes(str, part) ==
    \E i \in 1..(Len(str) - Len(part) + 1) : SubSeq(str, i, i + Len(part) - 1) = part

sensitiveKeys ==
    << <<"p","a","s","s","w","o","r","d">>, <<"p","a","s","s">>, <<"k","e","y">>,
       <<"s","e","c","r","e","t">>, <<"t","o","k","e","n">>, <<"a","u","t","h">> >>

\* sensitiveKeys.some((sensitive) => name.toLowerCase().includes(sensitive))
isSensitive(name) ==
    \E n \in 1..Len(sensitiveKeys) : includes(toLowerCase(name), sensitiveKeys[n])

REDACTED == <<"[","R","E","D","A","C","T","E","D","]">>

\* _redactSensitiveConfig(config): env is the list of the <<name, value>> members
\* of config.env, args the array config.args
redactSensitiveConfig(config) ==
    [ env  |-> [i \in 1..Len(config.env) |->
                   IF isSensitive(config.env[i][1])
                   THEN <<config.env[i][1], REDACTED>> ELSE config.env[i]],
      args |-> [i \in 1..Len(config.args) |->
                   LET prevArg == IF i > 1 THEN config.args[i - 1] ELSE << >>
                   IN  IF isSensitive(prevArg) THEN REDACTED ELSE config.args[i]] ]

\* the names of environment variables and the arguments of the inputs
EnvNames ==
    { <<"G","I","T","H","U","B","_","T","O","K","E","N">>, <<"A","p","i","K","e","y">>,
      <<"P","A","T","H">>, <<"D","B","_","P","a","s","s","w","d">>,
      <<"a","u","t","h","o","r">> }
ArgWords ==
    { <<"-","-","k","e","y">>, <<"-","-","T","o","k","e","n">>, <<"x","y","z">> }
EnvValues == { <<"a","b","c">> }

MaxArgs == 3
MaxEnv  == 2

SeqsUpTo(S, n) == UNION {[1..m -> S] : m \in 0..n}

\* an env object has every name once
EnvObjects ==
    {e \in SeqsUpTo(EnvNames \X EnvValues, MaxEnv) :
        \A i, j \in 1..Len(e) : i # j => e[i][1] # e[j][1]}

ListedConfigs == [args : SeqsUpTo(ArgWords, MaxArgs), env : EnvObjects]

Reports == {"listClientServers", "listActiveProcesses", "dumpState"}

\* a registry entry with any of the configs
InitListing ==
    /\ Init!1 /\ Init!2 /\ Init!3 /\ Init!4 /\ Init!5 /\ Init!6 /\ Init!7 /\ Init!8
    /\ Init!9 /\ Init!10 /\ Init!11 /\ Init!14 /\ Init!15 /\ Init!16 /\ Init!17
    /\ entryConfig \in ListedConfigs
    /\ listed = NotListed

\* listClientServers, listActiveProcesses and dumpState: the config of the entry
Report(by) ==
    /\ listed' = [by |-> by, config |-> redactSensitiveConfig(entryConfig)]
    /\ UNCHANGED <<procs, registry, initializingProcesses, jsonRpcIdCounter, now, calls,
                   replies, emitted, apiCall, answers, running, entryConfig,
                   output, parsedOutput, handshakeOutput, spawnOptions>>

NextListing == \E by \in Reports : Report(by)

SpecListing == InitListing /\ [][NextListing]_vars

----------------------------------------------------------------------------
(* The scan of the collected output in the timeout callbacks of /api/run and
   /api/details.  A line is described by what the scan reads of it. *)

\* the id of the tools/list request of /api/details
DetailsId == 2

MaxLines == 3

\* brace: the trimmed line starts with "{"; valid: JSON.parse accepts it (it is
\* then a JSON object); id: its id member
OutputLines ==
    { [brace |-> FALSE, valid |-> FALSE, id |-> 0],
      [brace |-> TRUE,  valid |-> FALSE, id |-> 0],
      [brace |-> TRUE,  valid |-> TRUE,  id |-> DetailsId],
      [brace |-> TRUE,  valid |-> TRUE,  id |-> DetailsId + 5] }

\* the for loop inside try { } catch (e) { }: JSON.parse throws on a line that is
\* not valid JSON, which ends the loop with parsedOutput still null
RECURSIVE scanOutput(_, _)
scanOutput(kind, lines) ==
    IF lines = << >> THEN NullLine
    ELSE LET line == Head(lines) IN
         IF ~line.brace THEN scanOutput(kind, Tail(lines))
         ELSE IF ~line.valid THEN NullLine
         ELSE IF kind = "run" \/ line.id = DetailsId THEN line
         ELSE scanOutput(kind, Tail(lines))

InitScan ==
    /\ Init!1 /\ Init!2 /\ Init!3 /\ Init!4 /\ Init!5 /\ Init!6 /\ Init!7 /\ Init!8
    /\ Init!9 /\ Init!10 /\ Init!11 /\ Init!12 /\ Init!13
    /\ output \in SeqsUpTo(OutputLines, MaxLines)
    /\ parsedOutput = NotParsed
    /\ Init!16 /\ Init!17

\* the callback of the setTimeout of /api/run or of /api/details
TimeoutCallback(kind) ==
    /\ parsedOutput' = [kind |-> kind, value |-> scanOutput(kind, output)]
    /\ UNCHANGED <<procs, registry, initializingProcesses, jsonRpcIdCounter, now, calls,
                   replies, emitted, apiCall, answers, running, entryConfig, listed,
                   output, handshakeOutput, spawnOptions>>

NextScan == \E kind \in {"run", "details"} : TimeoutCallback(kind)

SpecScan == InitScan /\ [][NextScan]_vars

----------------------------------------------------------------------------
(* Properties *)

LivePids(key) == {p \in Pids : procs[p].key = key /\ procs[p].alive}
SpawnedFor(key) == {p \in Pids : procs[p].key = key}

\* C1: for every key, at every instant, at most one process spawned for the key
\* is alive (spawned and not yet exited).
C1_AtMostOneLiveProcess ==
    \A k \in Keys : Cardinality(LivePids(k)) <= 1

\* C2: ensureProcess calls for one key that overlap in time wait for one and the
\* same startup, no second process is spawned for the key while they wait, and all
\* of them return the process of that startup, the waiting ones tagged
\* wasAlreadyRunning.
C2_ConcurrentEnsureOneSpawn ==
    /\ \A c, d \in Callers :
          (calls[c].pc = "await" /\ calls[d].pc = "await" /\ calls[c].key = calls[d].key)
             => calls[c].startup = calls[d].startup
    /\ \A c \in Callers :
          calls[c].pc = "await" =>
             /\ InFlight(calls[c].key) = calls[c].startup
             /\ \A p \in SpawnedFor(calls[c].key) : p <= calls[c].startup
    /\ \A r \in replies :
          r.path = "join" =>
             /\ r.wasAlreadyRunning /\ ~r.error
             /\ \E l \in replies : l.path = "spawn" /\ l.key = r.key /\ l.pid = r.pid
             /\ \A p \in SpawnedFor(r.key) : p <= r.pid

\* two overlapping calls for a key that had no entry have both returned the one
\* process ever spawned for the key
C2_Witness ==
    \E l, r \in replies :
        /\ l.path = "spawn" /\ l.fresh /\ r.path = "join"
        /\ l.key = r.key /\ l.pid = r.pid
        /\ SpawnedFor(r.key) = {r.pid}

\* the entry of the key is live (unsignalled) and initialized and has this fingerprint
LiveInitializedEntry(key, configHash) ==
    /\ key \in DOMAIN registry
    /\ registry[key].configHash = configHash
    /\ registry[key].isInitialized
    /\ ~procs[registry[key].pid].killed

\* C3: ensureProcess with the fingerprint of a live, initialized entry returns that
\* entry's process with wasAlreadyRunning = true, and neither spawns nor signals a
\* process nor replaces the entry, every time it is called.
C3_ReuseNeverRespawns ==
    [][\A c \in Callers, cl \in Clients, s \in Servers, cfg \in Configs, ttl \in TTLs :
          (/\ LiveInitializedEntry(generateKey(cl, s), JSONstringify(cfg))
           /\ EnsureProcess(c, cl, s, cfg, ttl))
          => LET k == generateKey(cl, s) IN
             /\ \E r \in replies' : /\ r.caller = c /\ r.wasAlreadyRunning /\ ~r.error
                                    /\ r.pid = registry[k].pid
             /\ procs' = procs
             /\ k \in DOMAIN registry'
             /\ registry'[k].pid = registry[k].pid
             /\ registry'[k].isInitialized]_vars

C3_Witness ==
    \E r \in replies :
        /\ r.path = "reuse" /\ r.wasAlreadyRunning
        /\ r.key \in DOMAIN registry /\ registry[r.key].pid = r.pid
        /\ Len(procs) = 1

\* C4: when ensureProcess replaced a live process because the config differs, the
\* old process has exited by the time the new entry is marked initialized.
C4_OldExitsBeforeNewReady ==
    \A k \in DOMAIN registry :
        LET p == registry[k].pid IN
        (registry[k].isInitialized /\ procs[p].superseded # 0)
           => ~procs[procs[p].superseded].alive

\* C5: a sweep signals and removes every entry with now - lastHit > ttlMs, so that
\* listActiveProcesses no longer has its key, and leaves every other entry as it is.
C5_SweepEvictsExpired ==
    [][sweepExpiredProcesses =>
          \A k \in DOMAIN registry :
             IF now - registry[k].lastHit > registry[k].ttlMs
             THEN /\ procs'[registry[k].pid].killed
                  /\ k \notin DOMAIN registry'
                  /\ k \notin listActiveProcesses'
             ELSE /\ k \in DOMAIN registry'
                  /\ registry'[k] = registry[k]
                  /\ procs'[registry[k].pid] = procs[registry[k].pid]]_vars

\* a sweep has just evicted the entry of a key and signalled its process
C5_Witness ==
    \E k \in Keys :
        /\ <<"timeout", k>> \in emitted
        /\ k \notin DOMAIN registry
        /\ k \notin listActiveProcesses
        /\ \E p \in LivePids(k) : procs[p].killed

\* C6: after killProcess(K) has returned true, isHealthy(K) gives the reason
\* "Process killed"; for a key that was never started it gives "Process not found".
C6_KilledReportsKilled ==
    [][\A k \in Keys :
          /\ (KillReturns(k) /\ killProcess(k)) => isHealthy(k)' = "Process killed"
          /\ SpawnedFor(k) = {} => isHealthy(k) = "Process not found"]_vars

\* C7: isHealthy reports "Not initialized" for an entry from the spawn of its
\* process until that process's handshake has resolved true, and reports healthy
\* only for a key with an entry whose process is unsignalled, whose isInitialized
\* is true (set by its own handshake) and whose pid answers the probe.
C7_HealthFollowsHandshake ==
    \A k \in Keys :
        /\ (k \in DOMAIN registry /\ procs[registry[k].pid].hs # "true"
                                  /\ ~procs[registry[k].pid].killed)
              => isHealthy(k) = "Not initialized"
        /\ isHealthy(k) = "healthy"
              => /\ k \in DOMAIN registry
                 /\ ~procs[registry[k].pid].killed
                 /\ registry[k].isInitialized
                 /\ procs[registry[k].pid].alive
                 /\ procs[registry[k].pid].hs = "true"

\* an entry whose process has answered the handshake, still reported as not
\* initialized until the handshake promise resolves
C7_Witness ==
    \E k \in DOMAIN registry :
        /\ procs[registry[k].pid].hs = "answered"
        /\ isHealthy(k) = "Not initialized"

\* C8: a handshake resolves false only by its timeout timer, with no response read;
\* that step changes no registry entry and signals no process, every ensureProcess
\* call waiting for the startup returns without an error, and the entry of the
\* process stays uninitialized.
C8_TimeoutKeepsEntry ==
    /\ [][\A p \in Pids :
             /\ InitTimeout(p) =>
                   /\ procs'[p].hs = "false"
                   /\ registry' = registry
                   /\ \A q \in Pids : procs'[q].killed = procs[q].killed
                   /\ \A c \in Awaiting(p) :
                         \E r \in replies' : r.caller = c /\ r.pid = p /\ ~r.error
             /\ (procs[p].hs # "false" /\ procs'[p].hs = "false")
                   => procs[p].hs = "pending"]_vars
    /\ [](\A k \in DOMAIN registry :
             procs[registry[k].pid].hs = "false" => ~registry[k].isInitialized)

\* the handshake of a registered process has just timed out: the call returned
\* without error, the entry is there, uninitialized, its process unsignalled
C8_Witness ==
    \E k \in DOMAIN registry :
        LET p == registry[k].pid IN
        /\ procs[p].hs = "false" /\ procs[p].alive /\ ~procs[p].killed
        /\ ~registry[k].isInitialized
        /\ <<"initTimeout", k>> \in emitted
        /\ \E r \in replies : r.pid = p /\ r.path = "spawn" /\ ~r.error

\* the line is a JSON object with the id of the initialize request sent to p and
\* with a result
IsResponseTo(line, p) ==
    line.json /\ line.result /\ line.id = procs[p].initId

\* C9: when the pending handshake reads the response to its initialize request it
\* writes notifications/initialized to that child and goes on to resolve true (never
\* false); it writes nothing on any other line, so each child receives the
\* notification once, after its response was read and never before.
C9_InitializedAfterResponse ==
    /\ [][\A p \in Pids :
             /\ \A line \in StdoutLines(p) :
                   ChildStdout(p, line) =>
                      IF IsResponseTo(line, p)
                      THEN /\ procs'[p].stdin =
                                 Append(procs[p].stdin, "notifications/initialized")
                           /\ procs'[p].hs = "answered"
                      ELSE procs' = procs
             /\ procs[p].hs = "answered" => procs'[p].hs \in {"answered", "true"}
             /\ procs'[p].hs = "true" => procs[p].hs \in {"answered", "true"}]_vars
    /\ [](\A p \in Pids :
             procs[p].alive =>
                Count(procs[p].stdin, "notifications/initialized") =
                   (IF procs[p].hs \in {"answered", "true"} THEN 1 ELSE 0))

\* a handshake has resolved true and its child has received the one notification
C9_Witness ==
    \E p \in Pids :
        /\ procs[p].hs = "true" /\ procs[p].alive
        /\ procs[p].stdin = <<"initialize", "notifications/initialized">>

Requests == {"ping", "tools/list", "tools/call"}

\* C10: on the stdin of every spawned process the initialize request is the first
\* line, and no ping, tools/list or tools/call line comes before the
\* notifications/initialized line.
C10_InitializeFirst ==
    \A p \in Pids :
        procs[p].alive =>
           /\ Len(procs[p].stdin) >= 1
           /\ procs[p].stdin[1] = "initialize"
           /\ \A i \in 1..Len(procs[p].stdin) :
                 procs[p].stdin[i] \in Requests =>
                    \E j \in 1..(i - 1) : procs[p].stdin[j] = "notifications/initialized"

\* a request line has been written to a child
C10_Witness ==
    \E p \in Pids : \E i \in 1..Len(procs[p].stdin) : procs[p].stdin[i] \in Requests

\* C11: whenever ensureProcess returns with wasAlreadyRunning = true, the registry
\* holds for that key an initialized entry of the returned process, and that
\* process has neither exited nor been signalled.
C11_AlreadyRunningIsUsable ==
    \A r \in replies :
        r.wasAlreadyRunning =>
           /\ r.key \in DOMAIN registry
           /\ registry[r.key].pid = r.pid
           /\ registry[r.key].isInitialized
           /\ procs[r.pid].alive
           /\ ~procs[r.pid].killed

\* C12: when the process exits while a /api/run or /api/details call is pending on
\* it, that call is answered in the same turn with the failure that reports the
\* exit, and is not left to its timeout.
C12_ExitAnswersPendingCall ==
    [][\A p \in Pids :
          (ProcExit(p) /\ apiCall.kind # "none" /\ apiCall.pid = p /\ ~apiCall.sent)
             => \E a \in answers' :
                   a.kind = apiCall.kind /\ a.status = 500 /\ a.why = "exit"]_vars

\* the handler of /api/run or /api/details reaches its stdin.write for the key
WritesRequest(key) ==
    getProcess(key) # 0 /\ isInitialized(key) /\ apiCall = NoApiCall

\* C13: when the write of the request line to the child's stdin fails, the call is
\* answered in the same turn with an error (500), no timer is started for it, and
\* so no ok:true answer is ever sent for it.
C13_WriteFailureFailsCall ==
    /\ [][\A kind \in {"run", "details"}, k \in Keys, w \in WriteOutcomes \ {"queued"} :
             (WritesRequest(k) /\ ApiCall(kind, k, w))
                => /\ \E a \in answers' : a.kind = kind /\ a.status = 500
                   /\ apiCall' = NoApiCall]_vars
    /\ [][\A a \in answers' : (a.ok /\ a.why = "timeout") => apiCall.written]_vars

\* the process spawned last for the key has been signalled or has exited
Terminated(key) ==
    /\ SpawnedFor(key) # {}
    /\ LET p == CHOOSE q \in SpawnedFor(key) : \A r \in SpawnedFor(key) : r <= q
       IN  procs[p].killed \/ ~procs[p].alive

\* C14: /api/run and /api/details answer 410 for a key whose process was killed or
\* has terminated, 404 only for a key without a started process, and 400 only for
\* a process that is not initialized yet.
C14_TerminatedAnswers410 ==
    [][\A kind \in {"run", "details"}, k \in Keys, w \in WriteOutcomes :
          ApiCall(kind, k, w) =>
             \A a \in answers' :
                /\ Terminated(k) => a.status = 410
                /\ a.status = 404 => SpawnedFor(k) = {}
                /\ a.status = 400 => (k \in DOMAIN registry /\ ~registry[k].isInitialized)]_vars

\* C15: a process that _terminateProcess has sent SIGTERM and that has not exited
\* when the force-kill timer fires is sent SIGKILL by the timer; when the process
\* exits first the timer is cancelled and SIGKILL is never sent.
C15_SigkillAfterGrace ==
    [][\A p \in Pids :
          /\ (ForceKillTimer(p) /\ procs[p].alive) => procs'[p].sigkill
          /\ (ProcExit(p) /\ procs[p].killTimer)
                => (~procs'[p].killTimer /\ ~procs'[p].sigkill)]_vars

\* C16: when an ensureProcess call has to spawn and the spawn fails, the call
\* returns an error, no entry and no in-flight marker is left for the key, and the
\* manager keeps running.
C16_SpawnFailureContained ==
    [][\A c \in Callers, cl \in Clients, s \in Servers, cfg \in Configs, ttl \in TTLs :
          LET k == generateKey(cl, s) IN
          (/\ InFlight(k) = 0 /\ ~CanReuse(k, JSONstringify(cfg))
           /\ EnsureProcess(c, cl, s, cfg, ttl)
           /\ Len(procs') = Len(procs))
          => /\ running'
             /\ \E r \in replies' : r.caller = c /\ r.error
             /\ k \notin DOMAIN registry'
             /\ k \notin DOMAIN initializingProcesses']_vars

\* C17: killProcess(K) returns true exactly when K has an entry whose process has
\* not been signalled; it then signals that process and removes the entry, so that
\* getProcess(K) is absent and a further killProcess(K) returns false; otherwise it
\* returns false and changes neither the registry nor a process.
C17_KillProcessContract ==
    [][\A k \in Keys :
          killProcess(k) =>
             IF k \in DOMAIN registry /\ ~procs[registry[k].pid].killed
             THEN /\ \A a \in answers' : a.status = 200
                  /\ procs'[registry[k].pid].killed
                  /\ k \notin DOMAIN registry'
                  /\ getProcess(k)' = 0
                  /\ ~KillReturns(k)'
             ELSE /\ \A a \in answers' : a.status = 404
                  /\ procs' = procs
                  /\ registry' = registry]_vars

\* killProcess has just returned true for a key whose process is still running
C17_Witness ==
    \E k \in Keys :
        /\ Answer("kill", k, 200, "terminated") \in answers
        /\ k \notin DOMAIN registry
        /\ \E p \in LivePids(k) : procs[p].killed

\* nothing that the manager keeps for another key than this one changes
OtherKeysUntouched(key) ==
    /\ \A k \in PairKeys \ {key} :
          /\ (k \in DOMAIN registry') = (k \in DOMAIN registry)
          /\ k \in DOMAIN registry => registry'[k] = registry[k]
          /\ (k \in DOMAIN initializingProcesses') = (k \in DOMAIN initializingProcesses)
          /\ k \in DOMAIN initializingProcesses
                => initializingProcesses'[k] = initializingProcesses[k]
    /\ \A q \in Pids : procs[q].key # key => procs'[q] = procs[q]

\* C18: an ensureProcess call for a key without a startup in flight never waits for
\* the startup of another key (it reuses, spawns or fails in its own turn), and an
\* operation on a key or an event of a key's process changes neither the entry,
\* the in-flight marker nor a process of any other key.
C18_KeysAreIndependent ==
    [][/\ \A c \in Callers, pr \in Pairs :
             LET k == generateKey(pr[1], pr[2]) IN
             EnsureProcess(c, pr[1], pr[2], CfgA, 1) =>
                /\ OtherKeysUntouched(k)
                /\ k \notin DOMAIN initializingProcesses => calls'[c].path # "join"
                /\ calls'[c].pc = "await" => procs'[calls'[c].startup].key = k
       /\ \A k \in PairKeys :
             (killProcess(k) \/ ApiCall("run", k, "queued")) => OtherKeysUntouched(k)
       /\ \A p \in Pids :
             (\/ \E line \in StdoutLines(p) : ChildStdout(p, line)
              \/ InitResolveTrue(p) \/ InitTimeout(p) \/ ProcExit(p) \/ ProcError(p))
                => OtherKeysUntouched(procs[p].key)]_vars

\* the startups of two different keys are in flight together, each with its own
\* process and its own waiting call
C18_Witness ==
    \E c, d \in Callers :
        /\ calls[c].pc = "await" /\ calls[c].path = "spawn"
        /\ calls[d].pc = "await" /\ calls[d].path = "spawn"
        /\ calls[c].key # calls[d].key
        /\ InFlight(calls[c].key) = calls[c].startup
        /\ InFlight(calls[d].key) = calls[d].startup
        /\ calls[c].startup # calls[d].startup

\* C19: two different (clientId, MCPServerName) pairs have different registry keys,
\* so the ensureProcess calls of two different pairs never return the same process.
C19_PairsHaveOwnKeys ==
    /\ \A pr, qr \in Pairs :
          pr # qr => generateKey(pr[1], pr[2]) # generateKey(qr[1], qr[2])
    /\ \A l, r \in replies :
          (l.pid = r.pid /\ ~l.error /\ ~r.error)
             => (l.clientId = r.clientId /\ l.MCPServerName = r.MCPServerName)

\* the name contains one of the sensitive terms, letter case apart
NamesSecret(name) ==
    \E n \in 1..Len(sensitiveKeys) :
        LET term == sensitiveKeys[n] IN
        \E i \in 1..Len(name) :
            /\ i + Len(term) - 1 <= Len(name)
            /\ \A j \in 1..Len(term) : LowerChar(name[i + j - 1]) = term[j]

ExampleConfig ==
    [ args |-> << <<"-","-","k","e","y">>, <<"x","y","z">> >>,
      env  |-> << << <<"G","I","T","H","U","B","_","T","O","K","E","N">>,
                     <<"a","b","c">> >> >> ]

\* C20: in the config that listClientServers, listActiveProcesses and dumpState
\* return, the value of every env variable whose name contains a sensitive term
\* (in any letter case) and every argument whose preceding argument contains one
\* is "[REDACTED]"; for env {GITHUB_TOKEN: "abc"} and args ["--key", "xyz"]
\* neither "abc" nor "xyz" is in the output.
C20_ReportsAreRedacted ==
    listed.by # "none" =>
       /\ Len(listed.config.env) = Len(entryConfig.env)
       /\ Len(listed.config.args) = Len(entryConfig.args)
       /\ \A i \in 1..Len(entryConfig.env) :
             /\ listed.config.env[i][1] = entryConfig.env[i][1]
             /\ NamesSecret(entryConfig.env[i][1]) => listed.config.env[i][2] = REDACTED
       /\ \A i \in 2..Len(entryConfig.args) :
             NamesSecret(entryConfig.args[i - 1]) => listed.config.args[i] = REDACTED
       /\ entryConfig = ExampleConfig =>
             /\ \A i \in 1..Len(listed.config.env) :
                   listed.config.env[i][2] \notin {<<"a","b","c">>, <<"x","y","z">>}
             /\ \A i \in 1..Len(listed.config.args) :
                   listed.config.args[i] \notin {<<"a","b","c">>, <<"x","y","z">>}

\* dumpState has returned the example config with both secrets redacted
C20_Witness ==
    /\ listed.by = "dumpState"
    /\ entryConfig = ExampleConfig
    /\ listed.config.env[1] = <<ExampleConfig.env[1][1], REDACTED>>
    /\ listed.config.args = <<ExampleConfig.args[1], REDACTED>>

\* the line is a syntactically valid JSON object that the call of this kind accepts
Acceptable(kind, line) ==
    line.brace /\ line.valid /\ (kind = "details" => line.id = DetailsId)

\* C21: the parsedResponse a timeout callback computes is the first output line
\* that is a valid JSON object (for /api/details: with id 2); lines that are not
\* valid JSON are skipped; it is absent only when the output has no such line.
C21_FirstValidJsonLine ==
    parsedOutput.kind # "none" =>
       LET kind == parsedOutput.kind
           hits == {i \in 1..Len(output) : Acceptable(kind, output[i])}
       IN  IF hits = {} THEN parsedOutput.value = NullLine
           ELSE parsedOutput.value =
                   output[CHOOSE i \in hits : \A j \in hits : i <= j]

\* the startups of the key that are in progress: the process was spawned and its
\* handshake promise has not settled
StartupsInProgress(key) ==
    {p \in SpawnedFor(key) : procs[p].hs \in {"pending", "answered"}}

\* C22: for every key there is at most one startup in progress, and
\* initializingProcesses holds a marker for the key exactly while one is.
C22_MarkerIffStartup ==
    running =>
       \A k \in Keys :
          /\ Cardinality(StartupsInProgress(k)) <= 1
          /\ (k \in DOMAIN initializingProcesses) = (StartupsInProgress(k) # {})

\* C23: an ensureProcess call for a key that has an entry returns (or waits for)
\* the entry's process, leaving it unsignalled, when the request's configHash
\* equals the entry's, and terminates that process to replace it when the
\* configHash differs; nothing else decides between the two.
C23_FingerprintAloneDecides ==
    [][\A c \in Callers, cl \in Clients, s \in Servers, cfg \in Configs, ttl \in TTLs :
          LET k == generateKey(cl, s) IN
          (k \in DOMAIN registry /\ EnsureProcess(c, cl, s, cfg, ttl)) =>
             LET p == registry[k].pid IN
             IF registry[k].configHash = JSONstringify(cfg)
             THEN /\ procs'[p].killed = procs[p].killed
                  /\ Len(procs') = Len(procs)
                  /\ \/ \E r \in replies' : r.caller = c /\ r.pid = p
                     \/ calls'[c].pc = "await" /\ calls'[c].startup = p
             ELSE procs'[p].killed]_vars

\* C24: the exit or error event of a process removes the entry that owns that
\* process, and never the entry of the same key that owns another process.
C24_EventRemovesOwnEntry ==
    [][\A p \in Pids :
          (ProcExit(p) \/ ProcError(p)) =>
             LET k == procs[p].key IN
             k \in DOMAIN registry =>
                IF registry[k].pid = p
                THEN k \notin DOMAIN registry'
                ELSE k \in DOMAIN registry' /\ registry'[k] = registry[k]]_vars

\* C25: an ensureProcess call with the same config for a key whose entry a
\* handshake timeout left live and uninitialized neither signals the entry's
\* process nor spawns a new one, and the entry keeps that process.
C25_RetryKeepsProcess ==
    [][\A c \in Callers, cl \in Clients, s \in Servers, cfg \in Configs, ttl \in TTLs :
          LET k == generateKey(cl, s) IN
          (/\ k \in DOMAIN registry
           /\ registry[k].configHash = JSONstringify(cfg)
           /\ procs[registry[k].pid].hs = "false"
           /\ procs[registry[k].pid].alive /\ ~procs[registry[k].pid].killed
           /\ EnsureProcess(c, cl, s, cfg, ttl))
          => /\ ~procs'[registry[k].pid].killed
             /\ Len(procs') = Len(procs)
             /\ k \in DOMAIN registry' /\ registry'[k].pid = registry[k].pid]_vars

\* the entry of the key is the one a handshake timeout left behind: registered,
\* not initialized, its process running and unsignalled
TimedOutEntry(k) ==
    /\ k \in DOMAIN registry
    /\ ~registry[k].isInitialized
    /\ procs[registry[k].pid].hs = "false"
    /\ procs[registry[k].pid].alive
    /\ ~procs[registry[k].pid].killed

\* the step leaves that entry registered, uninitialized and unsignalled
StaysTimedOut(k) ==
    /\ k \in DOMAIN registry'
    /\ registry'[k].pid = registry[k].pid
    /\ ~registry'[k].isInitialized
    /\ procs'[registry[k].pid].hs = "false"
    /\ ~procs'[registry[k].pid].killed

\* the timers of the manager and of the API other than the idle sweep
OtherTimerStep ==
    \/ \E w \in SUBSET Keys : pingActiveConnections(w)
    \/ \E p \in Pids : ForceKillTimer(p)
    \/ \E p \in Pids : InitTimeout(p)
    \/ \E p \in Pids : InitResolveTrue(p)
    \/ ApiTimeout

\* C26 as stated: no timer of the manager, the idle sweep included, terminates,
\* evicts or initializes the entry a handshake timeout left behind.
C26_NoTimerEverEvicts ==
    [][\A k \in Keys :
          TimedOutEntry(k) /\ (sweepExpiredProcesses \/ OtherTimerStep)
             => StaysTimedOut(k)]_vars

\* C26, amended: the entry a handshake timeout left behind is left as it is by
\* every timer except the idle sweep, and by the idle sweep until the entry has
\* been idle for longer than its ttl; the first sweep after that signals its
\* process and removes the entry.
C26_OnlyIdleSweepEvicts ==
    [][\A k \in Keys :
          TimedOutEntry(k) =>
             /\ OtherTimerStep => StaysTimedOut(k)
             /\ sweepExpiredProcesses =>
                   IF now - registry[k].lastHit > registry[k].ttlMs
                   THEN /\ k \notin DOMAIN registry'
                        /\ procs'[registry[k].pid].killed
                   ELSE StaysTimedOut(k)]_vars

\* the idle sweep has just evicted an entry whose handshake had timed out
C26_Witness ==
    \E p \in Pids :
       /\ procs[p].hs = "false"
       /\ procs[p].killed
       /\ <<"timeout", procs[p].key>> \in emitted
       /\ procs[p].key \notin DOMAIN registry

\* C27: an entry is not initialized when it is registered, and an entry that is
\* marked initialized owns a process whose own handshake has succeeded.
C27_OwnHandshakeOnly ==
    [][\A k \in Keys :
          k \in DOMAIN registry' =>
             /\ (k \notin DOMAIN registry \/ registry[k].pid # registry'[k].pid)
                   => ~registry'[k].isInitialized
             /\ registry'[k].isInitialized
                   => procs'[registry'[k].pid].hs = "true"]_vars

\* the requests in flight whose ids the state records: the initialize request of
\* every pending handshake, and the tools/list request of a pending /api/details
\* call (the ids of pings and of tools/call requests are not kept)
InFlightRequests ==
    {[method |-> "initialize", pid |-> p, id |-> procs[p].initId] :
        p \in {q \in Pids : procs[q].alive /\ procs[q].hs = "pending"}}
    \cup
    (IF apiCall.kind = "details" /\ apiCall.written /\ procs[apiCall.pid].alive
     THEN {[method |-> "tools/list", pid |-> apiCall.pid, id |-> DetailsId]}
     ELSE {})

\* C28: no two requests that are in flight at the same time carry the same id.
C28_InFlightIdsDistinct ==
    \A r1, r2 \in InFlightRequests : r1 # r2 => r1.id # r2.id

----------------------------------------------------------------------------
(* The background cycles when the handling of one entry throws.  The registry is
   a Map, which is iterated in the order its keys were set: the order in which
   the processes of the entries were spawned. *)

\* the largest id the counter hands out to a ping whose write throws
MaxId == 5

\* where the handling of an expired entry can throw: in proc.kill("SIGTERM"),
\* before a signal is delivered, or in a listener of the "timeout" event
ThrowPoints == {"kill", "emit"}

\* the setInterval callback of the constructor runs sweepExpiredProcesses and the
\* handling of the entry of failKey throws: the loop is left, the entries after it
\* are not looked at, no key is deleted, and the exception leaves the callback,
\* an uncaught exception
sweepThrows(failKey, at) ==
    LET expiredKeys == {k \in DOMAIN registry : Expired(k)}
        before      == {k \in expiredKeys : registry[k].pid < registry[failKey].pid}
        signalled   == IF at = "emit" THEN before \cup {failKey} ELSE before
    IN
    /\ running
    /\ failKey \in expiredKeys
    /\ procs' = TerminateAll(procs, {registry[k].pid : k \in signalled})
    /\ emitted' = {<<"timeout", k>> : k \in signalled}
    /\ running' = FALSE
    /\ answers' = {}
    /\ replies' = {}
    /\ UNCHANGED <<registry, initializingProcesses, jsonRpcIdCounter, now, calls, apiCall>>
    /\ NoListing

\* pingActiveConnections when proc.stdin.write throws for the due entries in
\* failed: _sendPing has taken an id, catches the exception and returns false
pingThrows(failed, written) ==
    LET due  == {k \in DOMAIN registry : PingDue(k)}
        sent == due \ failed
    IN
    /\ running
    /\ NoApi
    /\ failed # {}
    /\ failed \subseteq due
    /\ written \subseteq sent
    /\ \A k \in sent : Len(procs[registry[k].pid].stdin) < MaxStdin
    /\ jsonRpcIdCounter + Cardinality(due) <= MaxId
    /\ procs' = WriteAll(procs, {registry[k].pid : k \in sent}, "ping")
    /\ jsonRpcIdCounter' = jsonRpcIdCounter + Cardinality(due)
    /\ registry' = [k \in DOMAIN registry |->
                       IF k \in written THEN Pinged(registry[k])
                       ELSE registry[k]]
    /\ emitted' = {}
    /\ replies' = {}
    /\ UNCHANGED <<initializingProcesses, now, calls>>

\* several keys, the clock, and the two background cycles with and without a
\* failure
NextFaults ==
    \/ \E pr \in Pairs, ttl \in TTLs : EnsureProcess(1, pr[1], pr[2], CfgA, ttl)
    \/ \E p \in Pids : \E line \in StdoutLines(p) : ChildStdout(p, line)
    \/ \E p \in Pids : InitResolveTrue(p)
    \/ \E p \in Pids : InitTimeout(p)
    \/ Tick
    \/ sweepExpiredProcesses
    \/ \E k \in PairKeys, at \in ThrowPoints : sweepThrows(k, at)
    \/ \E w \in SUBSET PairKeys : pingActiveConnections(w)
    \/ \E f \in SUBSET PairKeys, w \in SUBSET PairKeys : pingThrows(f, w)

SpecFaults == Init /\ [][NextFaults]_vars

\* C30: when the handling of one entry throws in an idle sweep or in a heartbeat
\* cycle, every other expired entry is still signalled and removed from the
\* registry, and every other due entry is still pinged.
C30_FailureIsIsolated ==
    [][/\ \A failKey \in PairKeys, at \in ThrowPoints :
             sweepThrows(failKey, at) =>
                \A k \in DOMAIN registry :
                   (k # failKey /\ now - registry[k].lastHit > registry[k].ttlMs)
                      => /\ procs'[registry[k].pid].killed
                         /\ k \notin DOMAIN registry'
       /\ \A f \in SUBSET PairKeys, w \in SUBSET PairKeys :
             pingThrows(f, w) =>
                \A k \in DOMAIN registry :
                   (k \notin f /\ PingDue(k))
                      => procs'[registry[k].pid].stdin
                            = Append(procs[registry[k].pid].stdin, "ping")]_vars

\* the heartbeat cycle alone does isolate the failure of one entry
C30_HeartbeatIsolated ==
    [][\A f \in SUBSET PairKeys, w \in SUBSET PairKeys :
          pingThrows(f, w) =>
             \A k \in DOMAIN registry :
                (k \notin f /\ PingDue(k))
                   => procs'[registry[k].pid].stdin
                         = Append(procs[registry[k].pid].stdin, "ping")]_vars

\* C39: an ensureProcess call that reuses the entry of its key sets the entry's
\* lastHit to the current time and changes nothing else: not the entry's ttlMs,
\* configHash, process, isInitialized or lastPing, no other entry, no process and
\* no in-flight marker.
C39_ReuseOnlyTouchesLastHit ==
    [][\A c \in Callers, cl \in Clients, s \in Servers, cfg \in Configs, ttl \in TTLs :
          LET k == generateKey(cl, s) IN
          (/\ EnsureProcess(c, cl, s, cfg, ttl)
           /\ k \notin DOMAIN initializingProcesses
           /\ k \in DOMAIN registry
           /\ registry[k].configHash = JSONstringify(cfg)
           /\ ~procs[registry[k].pid].killed
           /\ registry[k].isInitialized)
          => /\ registry' = [registry EXCEPT ![k].lastHit = now]
             /\ UNCHANGED <<procs, initializingProcesses, jsonRpcIdCounter>>]_vars

\* an entry registered with ttl 1 has just been reused, after the clock has moved
C39_Witness ==
    \E r \in replies :
       /\ r.path = "reuse"
       /\ r.key \in DOMAIN registry
       /\ registry[r.key].lastHit = now
       /\ now > 1
       /\ registry[r.key].ttlMs = 1

\* C37: every spawned process that is running and has not been sent a signal is
\* the process of the registry entry stored under its key.
C37_RunningProcessIsRegistered ==
    \A p \in Pids :
       (procs[p].alive /\ ~procs[p].killed) =>
          /\ procs[p].key \in DOMAIN registry
          /\ registry[procs[p].key].pid = p

\* the exit of one process leaves every other running, unsignalled and
\* registered process registered
C37_ExitKeepsOtherProcessRegistered ==
    [][\A p \in Pids :
          (/\ procs[p].alive /\ ~procs[p].killed
           /\ procs[p].key \in DOMAIN registry /\ registry[procs[p].key].pid = p
           /\ \E q \in Pids : q # p /\ ProcExit(q))
          => /\ procs[p].key \in DOMAIN registry'
             /\ registry'[procs[p].key].pid = p]_vars

\* C38: when ensureProcess resolves with wasAlreadyRunning = false, the registry
\* holds an entry for the key whose process is the returned one, and that process
\* has neither exited nor been sent a signal.
C38_StartedIsRegisteredAndRunning ==
    \A r \in replies :
       (~r.error /\ ~r.wasAlreadyRunning) =>
          /\ r.key \in DOMAIN registry
          /\ registry[r.key].pid = r.pid
          /\ procs[r.pid].alive
          /\ ~procs[r.pid].killed

\* C35: a /api/run or /api/details request that has passed the checks is answered
\* exactly once: when its timer fires it either has not been answered and is
\* answered now, or it has been answered and no further response is attempted,
\* so that the timer never ends the server.
C35_AnsweredExactlyOnce ==
    [][ApiTimeout =>
          /\ running'
          /\ IF apiCall.sent THEN answers' = {}
             ELSE Cardinality(answers') = 1]_vars

\* C36: provided the timers of the handshake fire, every ensureProcess call that
\* waits for a startup, its own or one in flight, eventually settles, for as long
\* as the server runs.
C36_EnsureProcessSettles ==
    \A c \in Callers :
       (calls[c].pc = "await") ~> (calls[c].pc = "idle" \/ ~running)

\* a call that waited for the startup in flight has settled by the handshake
\* timeout of a process that had exited during its handshake
C36_Witness ==
    \E r \in replies :
       /\ r.path = "join"
       /\ ~procs[r.pid].alive
       /\ procs[r.pid].hs = "false"

\* the startup of process p is in progress and is not the one the in-flight map
\* names for its key: it was pending when shutdown cleared the map
Orphaned(p) ==
    /\ procs[p].hs \in {"pending", "answered"}
    /\ InFlight(procs[p].key) # p

\* C40: shutdown leaves the registry and the in-flight map empty and every
\* process that was registered signalled; and when a startup that was pending
\* at a shutdown settles afterwards, it changes neither the registry nor the
\* in-flight map.
C40_ShutdownIsFinal ==
    [][/\ shutdown =>
             /\ registry' = EmptyMap
             /\ initializingProcesses' = EmptyMap
             /\ \A k \in DOMAIN registry : procs'[registry[k].pid].killed
       /\ \A p \in Pids :
             (Orphaned(p) /\ (InitResolveTrue(p) \/ InitTimeout(p)))
                => UNCHANGED <<registry, initializingProcesses>>]_vars

\* the first half alone: what shutdown leaves behind
ShutdownEmptiesMaps ==
    [][shutdown =>
          /\ registry' = EmptyMap
          /\ initializingProcesses' = EmptyMap
          /\ \A k \in DOMAIN registry : procs'[registry[k].pid].killed]_vars

----------------------------------------------------------------------------
(* The manager with the operations that only read the registry, and with
   pingConnection *)

\* isInitialized(clientId, MCPServerName), as the caller sees it
QueryInitialized(key) ==
    /\ running
    /\ answers' = {Answer("isInitialized", key, 200,
                          IF isInitialized(key) THEN "true" ELSE "false")}
    /\ emitted' = {}
    /\ replies' = {}
    /\ UNCHANGED <<procs, registry, initializingProcesses, jsonRpcIdCounter, now, calls,
                   apiCall, running>>
    /\ NoListing

\* isHealthy(clientId, MCPServerName): process.kill(pid, 0) delivers no signal
QueryHealthy(key) ==
    /\ running
    /\ answers' = {Answer("isHealthy", key, 200, isHealthy(key))}
    /\ emitted' = {}
    /\ replies' = {}
    /\ UNCHANGED <<procs, registry, initializingProcesses, jsonRpcIdCounter, now, calls,
                   apiCall, running>>
    /\ NoListing

\* pingConnection(clientId, MCPServerName); written: stdin.write returned true
pingConnection(key, written) ==
    /\ running
    /\ emitted' = {}
    /\ replies' = {}
    /\ UNCHANGED <<initializingProcesses, now, calls, apiCall, running>>
    /\ NoListing
    /\ IF key \notin DOMAIN registry
       THEN /\ answers' = {Answer("pingConnection", key, 200, "Process not found")}
            /\ UNCHANGED <<procs, registry, jsonRpcIdCounter>>
       ELSE IF procs[registry[key].pid].killed
       THEN /\ answers' = {Answer("pingConnection", key, 200, "Process is killed")}
            /\ UNCHANGED <<procs, registry, jsonRpcIdCounter>>
       ELSE IF ~registry[key].isInitialized
       THEN /\ answers' = {Answer("pingConnection", key, 200, "Process not initialized")}
            /\ UNCHANGED <<procs, registry, jsonRpcIdCounter>>
       ELSE /\ Len(procs[registry[key].pid].stdin) < MaxStdin
            /\ procs' = StdinWrite(procs, registry[key].pid, "ping")
            /\ jsonRpcIdCounter' = jsonRpcIdCounter + 1
            /\ registry' = IF written THEN [registry EXCEPT ![key] = Pinged(@)]
                           ELSE registry
            /\ answers' = {Answer("pingConnection", key, 200,
                                  IF written THEN "success"
                                  ELSE "Failed to send ping message")}

\* the list operations report the entries and leave them as they are
ListReports == {"listClientServers", "listActiveProcesses"}

NextReads ==
    \/ \E c \in Callers, cl \in Clients, s \in Servers, cfg \in Configs, ttl \in TTLs :
          EnsureProcess(c, cl, s, cfg, ttl)
    \/ \E p \in Pids : \E line \in StdoutLines(p) : ChildStdout(p, line)
    \/ \E p \in Pids : InitResolveTrue(p)
    \/ \E p \in Pids : InitTimeout(p)
    \/ \E p \in Pids : ProcExit(p)
    \/ \E k \in Keys : killProcess(k)
    \/ sweepExpiredProcesses
    \/ \E kind \in {"run", "details"}, k \in Keys : ApiCall(kind, k, "queued")
    \/ ApiTimeout
    \/ \E w \in SUBSET Keys : pingActiveConnections(w)
    \/ Tick
    \/ \E k \in Keys : QueryInitialized(k)
    \/ \E k \in Keys : QueryHealthy(k)
    \/ \E k \in Keys, w \in BOOLEAN : pingConnection(k, w)
    \/ \E by \in ListReports : running /\ Report(by)

SpecReads == Init /\ [][NextReads]_vars

\* the step is one of the operations that must leave lastHit alone
ReadOrPing ==
    \/ \E k \in Keys : QueryInitialized(k)
    \/ \E k \in Keys : QueryHealthy(k)
    \/ \E k \in Keys, w \in BOOLEAN : pingConnection(k, w)
    \/ \E by \in ListReports : Report(by)
    \/ \E w \in SUBSET Keys : pingActiveConnections(w)

\* C32: getProcess on a live entry and a reusing ensureProcess set the entry's
\* lastHit to the current time; isInitialized, isHealthy, listClientServers,
\* listActiveProcesses, pingConnection and the heartbeat cycle leave every
\* entry's lastHit, and so the time of its idle eviction, unchanged.
C32_OnlyUseTouchesLastHit ==
    [][/\ \A kind \in {"run", "details"}, k \in Keys :
             (ApiCall(kind, k, "queued") /\ getProcess(k) # 0)
                => registry'[k].lastHit = now
       /\ \A r \in replies' :
             r.path = "reuse" => registry'[r.key].lastHit = now
       /\ ReadOrPing =>
             /\ DOMAIN registry' = DOMAIN registry
             /\ \A k \in DOMAIN registry :
                   /\ registry'[k].lastHit = registry[k].lastHit
                   /\ registry'[k].ttlMs = registry[k].ttlMs]_vars

\* an entry that has just been pinged is nevertheless due for eviction
C32_Witness ==
    \E k \in DOMAIN registry :
       /\ registry[k].lastPing = now
       /\ now - registry[k].lastHit > registry[k].ttlMs
       /\ Count(procs[registry[k].pid].stdin, "ping") >= 1

\* C31: a process on which no handshake and no /api/run or /api/details call is
\* in progress carries none of the listeners those operations attach.
C31_ListenersDetached ==
    \A p \in Pids :
       (procs[p].hs # "pending" /\ apiCall.pid # p) => procs[p].listeners = 0

----------------------------------------------------------------------------
(* The stdout buffer of the handshake.  A character is represented by the
   number of the chunk it arrived in; the cap is scaled down. *)

\* MAX_OUTPUT_BUFFER, scaled
MAX_OUTPUT_BUFFER == 6

MaxChunk  == 7     \* characters in one chunk
MaxChunks == 5     \* "data" events of one handshake

\* String.prototype.slice(-n) for n > 0: the last n characters
sliceLast(s, n) ==
    IF Len(s) <= n THEN s ELSE SubSeq(s, Len(s) - n + 1, Len(s))

\* dataListener of _initializeMCPServer, up to the scan for the response
dataListener(size) ==
    LET chunk == [i \in 1..size |-> handshakeOutput.chunks + 1]
        grown == handshakeOutput.outputSize + size
        cut   == sliceLast(handshakeOutput.output, MAX_OUTPUT_BUFFER \div 2) \o chunk
    IN
    /\ handshakeOutput.chunks < MaxChunks
    /\ handshakeOutput' =
          IF grown > MAX_OUTPUT_BUFFER
          THEN [output |-> cut, outputSize |-> Len(cut),
                chunks |-> handshakeOutput.chunks + 1]
          ELSE [output |-> handshakeOutput.output \o chunk, outputSize |-> grown,
                chunks |-> handshakeOutput.chunks + 1]
    /\ UNCHANGED <<procs, registry, initializingProcesses, jsonRpcIdCounter, now, calls,
                   replies, emitted, apiCall, answers, running, entryConfig, listed,
                   output, parsedOutput, spawnOptions>>

NextBuffer == \E size \in 1..MaxChunk : dataListener(size)

SpecBuffer == Init /\ [][NextBuffer]_vars

\* C33: during the handshake the buffered stdout text is never longer than
\* MAX_OUTPUT_BUFFER, whatever chunks arrive.
C33_BufferWithinCap ==
    Len(handshakeOutput.output) <= MAX_OUTPUT_BUFFER

\* the buffer always is a suffix of what arrived: only the oldest data is dropped
BufferKeepsNewest ==
    \A i \in 1..Len(handshakeOutput.output) :
       /\ handshakeOutput.output[i] \in 1..handshakeOutput.chunks
       /\ i > 1 => handshakeOutput.output[i - 1] <= handshakeOutput.output[i]

----------------------------------------------------------------------------
(* The environment of a spawned process.  An environment is a function from
   the names of its variables to their values. *)

\* the names _sanitizedEnv copies from process.env
AllowList(win32) ==
    {"PATH"}
    \cup (IF win32
          THEN {"SystemRoot", "USERPROFILE", "TEMP", "TMP", "APPDATA", "LOCALAPPDATA",
                "ComSpec", "PATHEXT", "USERNAME", "USERDOMAIN", "ProgramData",
                "ProgramFiles", "ProgramFiles(x86)", "PROCESSOR_ARCHITECTURE",
                "NUMBER_OF_PROCESSORS"}
          ELSE {"HOME", "TMPDIR", "USER", "SHELL"})
    \cup {"npm_config_cache", "npm_config_prefix", "npm_config_global_prefix",
          "npm_config_userconfig", "npm_config_globalconfig", "npm_config_user_agent",
          "NODE", "JAVA_HOME", "PYTHON", "LANG"}

\* { ...a, ...b }
Spread(a, b) ==
    [n \in DOMAIN a \cup DOMAIN b |-> IF n \in DOMAIN b THEN b[n] ELSE a[n]]

\* _sanitizedEnv(extra): a name process.env lacks is undefined and is deleted
sanitizedEnv(host, extra, win32) ==
    LET allowed   == [n \in AllowList(win32) \cap DOMAIN host |-> host[n]]
        essential == Spread(allowed, extra)
    IN  Spread(essential, [n \in {"NODE_ENV"} |-> "production"])

\* the inputs: the variables of the host and of config.env
HostNames  == {"PATH", "HOME", "SystemRoot", "AWS_SECRET", "NODE_ENV"}
ExtraNames == {"PATH", "API_KEY", "NODE_ENV"}
HostValue(n)  == IF n = "NODE_ENV" THEN "test" ELSE "host"
ExtraValue(n) == IF n = "NODE_ENV" THEN "development" ELSE "caller"
HostEnvs  == {[n \in D |-> HostValue(n)] : D \in SUBSET HostNames}
ExtraEnvs == {[n \in D |-> ExtraValue(n)] : D \in SUBSET ExtraNames}

InitEnv ==
    /\ Init!1 /\ Init!2 /\ Init!3 /\ Init!4 /\ Init!5 /\ Init!6 /\ Init!7 /\ Init!8
    /\ Init!9 /\ Init!10 /\ Init!11 /\ Init!12 /\ Init!13 /\ Init!14 /\ Init!15
    /\ Init!16
    /\ spawnOptions \in [host : HostEnvs, extra : ExtraEnvs, win32 : BOOLEAN,
                         env : {EmptyEnv}, spawned : {FALSE}]

\* spawnOptions.env = this._sanitizedEnv(config.env) in _doEnsureProcess
SetSpawnEnv ==
    /\ ~spawnOptions.spawned
    /\ spawnOptions' =
          [spawnOptions EXCEPT
              !.env = sanitizedEnv(spawnOptions.host, spawnOptions.extra,
                                   spawnOptions.win32),
              !.spawned = TRUE]
    /\ UNCHANGED <<procs, registry, initializingProcesses, jsonRpcIdCounter, now, calls,
                   replies, emitted, apiCall, answers, running, entryConfig, listed,
                   output, parsedOutput, handshakeOutput>>

NextEnv == SetSpawnEnv

SpecEnv == InitEnv /\ [][NextEnv]_vars

\* every variable of config.env reaches the child with the caller's value
CallerEnvWins ==
    spawnOptions.spawned =>
       \A n \in DOMAIN spawnOptions.extra :
          /\ n \in DOMAIN spawnOptions.env
          /\ spawnOptions.env[n] = spawnOptions.extra[n]

\* a variable of the child is one of config.env or an allow-listed one of the host
OnlyAllowedOrCaller ==
    spawnOptions.spawned =>
       \A n \in DOMAIN spawnOptions.env :
          \/ /\ n \in DOMAIN spawnOptions.extra
             /\ spawnOptions.env[n] = spawnOptions.extra[n]
          \/ /\ n \in AllowList(spawnOptions.win32) \cap DOMAIN spawnOptions.host
             /\ spawnOptions.env[n] = spawnOptions.host[n]

\* C34: the environment given to a spawned process contains only allow-listed
\* host variables and the entries of config.env, and every entry of config.env
\* is in it with the caller's value.
C34_EnvIsAllowListPlusCaller ==
    CallerEnvWins /\ OnlyAllowedOrCaller

\* apart from NODE_ENV the environment is what the claim says
EnvExceptNodeEnv ==
    spawnOptions.spawned =>
       /\ \A n \in DOMAIN spawnOptions.extra \ {"NODE_ENV"} :
             n \in DOMAIN spawnOptions.env /\ spawnOptions.env[n] = spawnOptions.extra[n]
       /\ \A n \in DOMAIN spawnOptions.env \ {"NODE_ENV"} :
             \/ n \in DOMAIN spawnOptions.extra
             \/ /\ n \in AllowList(spawnOptions.win32) \cap DOMAIN spawnOptions.host
                /\ spawnOptions.env[n] = spawnOptions.host[n]

====
